---- MODULE Spec2Model ----
(***************************************************************************)
(* Report formatting of ledger: the width-aware truncation of texts        *)
(* (format_t::truncate), the template compiler (format_t::parse_elements), *)
(* the renderer (format_t::format) and the account display selector        *)
(* (display_account), modelled from the code as the preprocessor leaves    *)
(* it: the regions between "#if 0" and "#endif" are not part of the build. *)
(*                                                                         *)
(* A text is a sequence of one-character strings.                          *)
(***************************************************************************)
EXTENDS Integers, Sequences, FiniteSets, TLC

\* ------------------------------------------------------------------ bounds

\* Longest text handed to truncate, and the widest width asked for.
MaxLen == 6

\* Largest value the process-wide abbrev_length is set to.
MaxAbbrev == 3

\* Longest template written character by character.
MaxFmtLen == 5

\* ------------------------------------------------------------ C++ helpers

\* The terminator of a C string, and a byte whose value the program never
\* wrote (memory outside the object that was read).
NUL == "NUL"
Indeterminate == "?"

\* string::npos
NPOS == -1

Min(a, b) == IF a < b THEN a ELSE b

\* All texts over the characters cs of length at most n.
TextsOver(cs, n) == UNION {[1..k -> cs] : k \in 0..n}

\* string(str, pos, n) and str.substr(pos, n): at most n characters from the
\* 0-based position pos; n = NPOS is "to the end".
Substr(str, pos, n) ==
  LET last == IF n = NPOS THEN Len(str) ELSE Min(Len(str), pos + n)
  IN  SubSeq(str, pos + 1, last)

\* str.find(ch, from): the first 0-based position >= from holding ch.
Find(str, ch, from) ==
  LET hits == {i \in from..(Len(str) - 1) : str[i + 1] = ch}
  IN  IF hits = {} THEN NPOS
      ELSE CHOOSE i \in hits : \A j \in hits : i <= j

\* A char buffer of n bytes nobody wrote yet; buf[i] of the code is Buf[i + 1].
NewBuf(n) == [i \in 1..n |-> Indeterminate]

\* The byte k positions after the pointer (str + off) into the C string of
\* str.  Positions before the first character belong to other objects.
ByteAt(str, off, k, before) ==
  LET p == off + k
  IN  IF p < 0 THEN before[-p]
      ELSE IF p < Len(str) THEN str[p + 1]
      ELSE NUL

\* strncpy(buf + at, str + off, n): exactly n bytes are written; once the
\* source's terminator is met the rest is filled with NUL.  "before" holds
\* the bytes in front of the string, read when off is negative.
RECURSIVE StopAt(_, _, _, _, _)
StopAt(str, off, k, n, before) ==
  IF k >= n THEN n
  ELSE IF ByteAt(str, off, k, before) = NUL THEN k
  ELSE StopAt(str, off, k + 1, n, before)

StrNCpy(buf, at, str, off, n, before) ==
  LET stop == StopAt(str, off, 0, n, before)
  IN  [i \in DOMAIN buf |->
         IF i - 1 >= at /\ i - 1 < at + n
           THEN IF i - 1 - at < stop
                  THEN ByteAt(str, off, i - 1 - at, before)
                  ELSE NUL
           ELSE buf[i]]

\* strcpy(buf, str): the characters and the terminator.
StrCpy(buf, str) ==
  [i \in DOMAIN buf |->
     IF i <= Len(str) THEN str[i]
     ELSE IF i = Len(str) + 1 THEN NUL
     ELSE buf[i]]

\* buf[i] = c
Poke(buf, i, c) == [buf EXCEPT ![i + 1] = c]

\* string(buf): the bytes in front of the first NUL.
CStr(buf) ==
  LET nuls == {i \in DOMAIN buf : buf[i] = NUL}
      first == IF nuls = {} THEN Len(buf) + 1
               ELSE CHOOSE i \in nuls : \A j \in nuls : i <= j
  IN  SubSeq(buf, 1, first - 1)

\* ------------------------------------------------------ format_t::truncate

ElisionStyles ==
  {"TRUNCATE_TRAILING", "TRUNCATE_MIDDLE", "TRUNCATE_LEADING", "ABBREVIATE"}

\* The characters of the texts handed to truncate.
NameChars == {"a", "b", ":"}

\* assert(width < 4095) in front of char buf[4096]
WidthLimit == 4095

\* case TRUNCATE_LEADING
TruncateLeading(buf, str, width) ==
  LET len == Len(str)
      b1 == StrNCpy(buf, 0, str, len - width, width, <<>>)
  IN  Poke(Poke(b1, 0, "."), 1, ".")

\* case TRUNCATE_MIDDLE
TruncateMiddle(buf, str, width) ==
  LET len == Len(str)
      b1 == StrNCpy(buf, 0, str, 0, width \div 2, <<>>)
      b2 == StrNCpy(b1, width \div 2, str,
                    len - ((width \div 2) + (width % 2)),
                    (width \div 2) + (width % 2), <<>>)
  IN  Poke(Poke(b2, (width \div 2) - 1, "."), width \div 2, ".")

\* case TRUNCATE_TRAILING
TruncateTrailing(buf, str, width) ==
  LET b1 == StrNCpy(buf, 0, str, 0, width - 2, <<>>)
  IN  Poke(Poke(b1, width - 2, "."), width - 1, ".")

\* The loop over str.find(':') that fills the list "parts".
RECURSIVE SplitParts(_, _, _)
SplitParts(str, beg, parts) ==
  LET pos == Find(str, ":", beg)
  IN  IF pos = NPOS THEN Append(parts, Substr(str, beg, NPOS))
      ELSE SplitParts(str, pos + 1, Append(parts, Substr(str, beg, pos - beg)))

\* The loop over parts: the last element is appended as it is; another one is
\* cut to abbrev characters while newlen > width, and newlen (an unsigned int)
\* has (*i).length() - abbrev_length taken from it.  For a part shorter than
\* abbrev_length that difference wraps around as a size_t and the subtraction
\* wraps back, which leaves newlen + (abbrev_length - length): newlen grows.
\* The value stays between 0 and the text's length plus the parts' count
\* times abbrev_length, far inside an unsigned int, so it is computed here
\* without the modulus.
RECURSIVE AbbrevWalk(_, _, _, _, _, _)
AbbrevWalk(parts, i, result, newlen, width, abbrev) ==
  IF i = Len(parts)
    THEN [result |-> result \o parts[i], newlen |-> newlen]
  ELSE IF newlen > width
    THEN AbbrevWalk(parts, i + 1,
                    result \o Substr(parts[i], 0, abbrev) \o <<":">>,
                    newlen - (Len(parts[i]) - abbrev),
                    width, abbrev)
  ELSE AbbrevWalk(parts, i + 1, result \o parts[i] \o <<":">>,
                  newlen, width, abbrev)

\* The bytes in front of a string's characters, when the code reads k of
\* them: each is some byte, possibly a NUL.
BytesBefore(k) == [1..k -> {Indeterminate, NUL}]

\* case ABBREVIATE with is_account: the buffers the build can end with.  When
\* newlen > width and the abbreviated text is shorter than width, the source
\* pointer result.c_str() + (result.length() - width) lies in front of the
\* text and strncpy reads the bytes there.
AbbreviateBufs(buf, str, width, abbrev) ==
  LET w == AbbrevWalk(SplitParts(str, 0, <<>>), 1, <<>>, Len(str), width, abbrev)
      off == Len(w.result) - width
  IN  IF w.newlen > width
        THEN {Poke(Poke(StrNCpy(buf, 0, w.result, off, width, before), 0, "."),
                   1, ".") :
                before \in BytesBefore(IF off < 0 THEN -off ELSE 0)}
        ELSE {StrCpy(buf, w.result)}

\* SwitchBufs with the test of is_account forgotten: ABBREVIATE never falls
\* through.
SwitchBufsNoFallThrough(buf, str, width, is_account, style, abbrev) ==
  CASE style = "TRUNCATE_LEADING" -> {TruncateLeading(buf, str, width)}
    [] style = "TRUNCATE_MIDDLE" -> {TruncateMiddle(buf, str, width)}
    [] style = "ABBREVIATE" -> AbbreviateBufs(buf, str, width, abbrev)
    [] OTHER -> {TruncateTrailing(buf, str, width)}

\* The switch on elision_style; ABBREVIATE falls through to TRUNCATE_TRAILING
\* when the text is no account name.
SwitchBufs(buf, str, width, is_account, style, abbrev) ==
  CASE style = "TRUNCATE_LEADING" -> {TruncateLeading(buf, str, width)}
    [] style = "TRUNCATE_MIDDLE" -> {TruncateMiddle(buf, str, width)}
    [] style = "ABBREVIATE" /\ is_account ->
         AbbreviateBufs(buf, str, width, abbrev)
    [] OTHER -> {TruncateTrailing(buf, str, width)}

\* Truncate with the early return taken for len < width only.
TruncateStrictReturn(str, width, is_account, style, abbrev) ==
  IF Len(str) < width THEN {str}
  ELSE IF ~(width < WidthLimit) THEN {"abort"}
  ELSE {CStr(Poke(b, width, NUL)) :
          b \in SwitchBufs(NewBuf(width + 1), str, width, is_account, style, abbrev)}

\* format_t::truncate(str, width, is_account) under the process-wide
\* elision_style and abbrev_length: the texts the build can return, or
\* "abort" where the assertion fails.
Truncate(str, width, is_account, style, abbrev) ==
  IF Len(str) <= width THEN {str}
  ELSE IF ~(width < WidthLimit) THEN {"abort"}
  ELSE {CStr(Poke(b, width, NUL)) :
          b \in SwitchBufs(NewBuf(width + 1), str, width, is_account, style, abbrev)}

\* ------------------------------------------------ format_t::parse_elements

\* The characters std::isdigit accepts, and *p - '0'.
Digits == {"0", "1", "2", "3", "4", "5", "6", "7", "8", "9"}
DigitValue(c) ==
  CASE c = "0" -> 0 [] c = "1" -> 1 [] c = "2" -> 2 [] c = "3" -> 3
    [] c = "4" -> 4 [] c = "5" -> 5 [] c = "6" -> 6 [] c = "7" -> 7
    [] c = "8" -> 8 [] c = "9" -> 9

\* *p for the 0-based position p in the memory that starts at fmt.c_str():
\* the template, its terminator and the bytes that happen to follow it.
\* Memory behind what is listed reads as NUL.
Mem(mem, p) == IF p < Len(mem) THEN mem[p + 1] ELSE NUL

\* A fresh element_t: no flags, no widths, no text, no expression, and a type
\* that none of the cases of parse_elements assigned.
NewElement ==
  [type |-> "UNSET", chars |-> <<>>, flags |-> {}, min_width |-> 0,
   max_width |-> 0, val_expr |-> <<>>, parsed |-> FALSE]

\* current->field = value, current being the last element of the chain.
SetCurrent(elems, field, value) ==
  [elems EXCEPT ![Len(elems)] = [@ EXCEPT ![field] = value]]

\* The characters an escape stands for; any other escaped character leaves
\* chars empty.
EscapeChars(c) ==
  CASE c = "b" -> <<"<BS>">>
    [] c = "f" -> <<"<FF>">>
    [] c = "n" -> <<"<LF>">>
    [] c = "r" -> <<"<CR>">>
    [] c = "t" -> <<"<HT>">>
    [] c = "v" -> <<"<VT>">>
    [] OTHER -> <<>>

\* The type a one-character field selector assigns; a character that is no
\* selector leaves the type as it was.
SelectorType(c, type) ==
  CASE c = "d" -> "COMPLETE_DATE_STRING"
    [] c = "D" -> "DATE_STRING"
    [] c = "S" -> "SOURCE"
    [] c = "B" -> "ENTRY_BEG_POS"
    [] c = "b" -> "ENTRY_BEG_LINE"
    [] c = "E" -> "ENTRY_END_POS"
    [] c = "e" -> "ENTRY_END_LINE"
    [] c = "X" -> "CLEARED"
    [] c = "Y" -> "ENTRY_CLEARED"
    [] c = "C" -> "CODE"
    [] c = "P" -> "PAYEE"
    [] c = "W" -> "OPT_ACCOUNT"
    [] c = "a" -> "ACCOUNT_NAME"
    [] c = "A" -> "ACCOUNT_FULLNAME"
    [] c = "t" -> "AMOUNT"
    [] c = "o" -> "OPT_AMOUNT"
    [] c = "T" -> "TOTAL"
    [] c = "N" -> "NOTE"
    [] c = "n" -> "OPT_NOTE"
    [] c = "|" -> "SPACER"
    [] c = "_" -> "DEPTH_SPACER"
    [] OTHER -> type

\* The type the character after 'x' assigns.
XactSelectorType(c, type) ==
  CASE c = "B" -> "XACT_BEG_POS"
    [] c = "b" -> "XACT_BEG_LINE"
    [] c = "E" -> "XACT_END_POS"
    [] c = "e" -> "XACT_END_LINE"
    [] OTHER -> type

\* The global output_time_format, which %d and %D copy.
OutputTimeFormat == <<"<output_time_format>">>

\* while (*p == '!' || *p == '-'): the flags and the position behind them.
RECURSIVE ScanFlags(_, _, _)
ScanFlags(mem, p, flags) ==
  IF Mem(mem, p) = "-" THEN ScanFlags(mem, p + 1, flags \cup {"ALIGN_LEFT"})
  ELSE IF Mem(mem, p) = "!" THEN ScanFlags(mem, p + 1, flags \cup {"HIGHLIGHT"})
  ELSE [p |-> p, flags |-> flags]

\* ScanNumber reading three digits at most.
RECURSIVE ScanNumberShort(_, _, _)
ScanNumberShort(mem, p, num) ==
  IF Mem(mem, p) \in Digits /\ num < 100
    THEN ScanNumberShort(mem, p + 1, num * 10 + DigitValue(Mem(mem, p)))
    ELSE [p |-> p, num |-> num]

\* while (*p && std::isdigit(*p)): the number and the position behind it.
RECURSIVE ScanNumber(_, _, _)
ScanNumber(mem, p, num) ==
  IF Mem(mem, p) \in Digits
    THEN ScanNumber(mem, p + 1, num * 10 + DigitValue(Mem(mem, p)))
    ELSE [p |-> p, num |-> num]

\* ScanClose without the depth count: the first closing delimiter ends it.
RECURSIVE ScanCloseFlat(_, _, _, _, _)
ScanCloseFlat(mem, p, open, close, depth) ==
  IF Mem(mem, p) = NUL THEN p
  ELSE IF Mem(mem, p) = close THEN p
  ELSE ScanCloseFlat(mem, p + 1, open, close, depth)

\* The loop that looks for the closing delimiter: the position of the
\* delimiter that brings depth to 0, or of the NUL that ends the loop.
RECURSIVE ScanClose(_, _, _, _, _)
ScanClose(mem, p, open, close, depth) ==
  IF Mem(mem, p) = NUL THEN p
  ELSE IF Mem(mem, p) = close /\ depth - 1 = 0 THEN p
  ELSE IF Mem(mem, p) = close THEN ScanClose(mem, p + 1, open, close, depth - 1)
  ELSE IF Mem(mem, p) = open THEN ScanClose(mem, p + 1, open, close, depth + 1)
  ELSE ScanClose(mem, p + 1, open, close, depth)

\* ExprParse that throws whenever it is called.
ExprParseThrows(elems, text, parse) ==
  [thrown |-> "parse_error: Value expression parser not initialized",
   elems |-> elems]

\* expr_t::parse(str): throws while no parser is installed, else keeps the
\* text and the parser's result.
ExprParse(elems, text, parser) ==
  IF parser = "null"
    THEN [thrown |-> "parse_error: Value expression parser not initialized",
          elems |-> elems]
    ELSE [thrown |-> "",
          elems |-> SetCurrent(SetCurrent(elems, "val_expr", text),
                               "parsed", TRUE)]

\* The chain with the element to fill added: a new element, and, when literal
\* text is pending in buf, that text as a STRING and one more new element.
StartElement(elems, q) ==
  IF q # <<>>
    THEN Append(SetCurrent(SetCurrent(Append(elems, NewElement),
                                      "type", "STRING"), "chars", q),
                NewElement)
    ELSE Append(elems, NewElement)

\* label END: pending literal text becomes a last STRING; the chain is
\* returned.
ScanEnd(elems, q, p) ==
  [thrown |-> "",
   elements |-> IF q # <<>>
                  THEN SetCurrent(SetCurrent(Append(elems, NewElement),
                                             "type", "STRING"), "chars", q)
                  ELSE elems,
   p |-> p]

\* throw: the chain is freed and nothing is returned.
ScanThrow(what, p) == [thrown |-> what, elements |-> <<>>, p |-> p]

\* ScanWidths without min_width taking max_width's value when it is 0.
ScanWidthsNoDefault(mem, p, elems) ==
  LET f == ScanFlags(mem, p, elems[Len(elems)].flags)
      e1 == SetCurrent(elems, "flags", f.flags)
      n1 == ScanNumber(mem, f.p, 0)
      e2 == SetCurrent(e1, "min_width", n1.num)
  IN  IF Mem(mem, n1.p) = "."
        THEN LET n2 == ScanNumber(mem, n1.p + 1, 0)
             IN  [p |-> n2.p, elems |-> SetCurrent(e2, "max_width", n2.num)]
        ELSE [p |-> n1.p, elems |-> e2]

\* The flags and widths of a directive, read from the position behind '%'.
ScanWidths(mem, p, elems) ==
  LET f == ScanFlags(mem, p, elems[Len(elems)].flags)
      e1 == SetCurrent(elems, "flags", f.flags)
      n1 == ScanNumber(mem, f.p, 0)
      e2 == SetCurrent(e1, "min_width", n1.num)
  IN  IF Mem(mem, n1.p) = "."
        THEN LET n2 == ScanNumber(mem, n1.p + 1, 0)
                 e3 == SetCurrent(e2, "max_width", n2.num)
             IN  [p |-> n2.p,
                  elems |-> IF n1.num = 0
                              THEN SetCurrent(e3, "min_width", n2.num)
                              ELSE e3]
        ELSE [p |-> n1.p, elems |-> e2]

\* The for loop of parse_elements from position p on, with the literal text
\* q pending in buf and the chain elems built so far.  Yields what is thrown
\* (or ""), the chain returned, and the last position read.
RECURSIVE Scan(_, _, _, _, _)
Scan(mem, p, q, elems, parser) ==
  LET c == Mem(mem, p)
  IN  IF c = NUL THEN ScanEnd(elems, q, p)
      ELSE IF c # "%" /\ c # "\\" THEN Scan(mem, p + 1, Append(q, c), elems, parser)
      ELSE IF c = "\\"
        THEN LET e == StartElement(elems, q)
             IN  Scan(mem, p + 2, <<>>,
                      SetCurrent(SetCurrent(e, "type", "STRING"), "chars",
                                 EscapeChars(Mem(mem, p + 1))),
                      parser)
      ELSE
        LET w == ScanWidths(mem, p + 1, StartElement(elems, q))
            s == Mem(mem, w.p)
        IN  CASE s = "%" ->
                   Scan(mem, w.p + 1, <<>>,
                        SetCurrent(SetCurrent(w.elems, "type", "STRING"),
                                   "chars", <<"%">>),
                        parser)
              [] s = "(" ->
                   LET b == w.p + 1
                       e == ScanClose(mem, b, "(", ")", 1)
                       x == ExprParse(SetCurrent(w.elems, "type", "VALUE_EXPR"),
                                      SubSeq(mem, b + 1, e), parser)
                   IN  IF Mem(mem, e) # ")"
                         THEN ScanThrow("format_error: Missing ')'", e)
                       ELSE IF x.thrown # "" THEN ScanThrow(x.thrown, e)
                       ELSE Scan(mem, e + 1, <<>>, x.elems, parser)
              [] s = "[" ->
                   LET b == w.p + 1
                       e == ScanClose(mem, b, "[", "]", 1)
                   IN  IF Mem(mem, e) # "]"
                         THEN ScanThrow("format_error: Missing ']'", e)
                         ELSE Scan(mem, e + 1, <<>>,
                                   SetCurrent(SetCurrent(w.elems, "type",
                                                         "DATE_STRING"),
                                              "chars", SubSeq(mem, b + 1, e)),
                                   parser)
              [] s = "x" ->
                   IF Mem(mem, w.p + 1) = NUL
                     THEN ScanEnd(w.elems, <<>>, w.p + 1)
                     ELSE Scan(mem, w.p + 2, <<>>,
                               SetCurrent(w.elems, "type",
                                          XactSelectorType(Mem(mem, w.p + 1),
                                            w.elems[Len(w.elems)].type)),
                               parser)
              [] s \in {"d", "D"} ->
                   Scan(mem, w.p + 1, <<>>,
                        SetCurrent(SetCurrent(w.elems, "type",
                                     SelectorType(s, "UNSET")),
                                   "chars", OutputTimeFormat),
                        parser)
              [] OTHER ->
                   Scan(mem, w.p + 1, <<>>,
                        SetCurrent(w.elems, "type",
                                   SelectorType(s, w.elems[Len(w.elems)].type)),
                        parser)

\* ------------------------------------------------------------------ state

VARIABLES
  elision_style,   \* format_t::elision_style, process-wide
  abbrev_length,   \* format_t::abbrev_length, process-wide
  configured,      \* whether either setting was assigned since start-up
  trunc_pc,        \* "idle", or "returned" once truncate was called
  trunc,           \* the call of truncate: its arguments and what it returned
  parser,          \* expr_t::parser: "null" or "set"
  compile_pc,      \* "idle", or "done" once parse_elements was called
  compiled,        \* the call of parse_elements: the template, the bytes that
                   \* followed it in memory if they were read, what was
                   \* thrown, the chain returned, the last position read
  render_pc,       \* "idle", or "done" once format was called
  rendered,        \* the call of format: the context it was given, whether
                   \* it ran to its end, what it wrote to the stream
  account_total,   \* each account's total, as compute_total yields it
  displayed,       \* the accounts whose xdata has ACCOUNT_DISPLAYED
  disp_pred,       \* the optional display predicate: whether it is present,
                   \* and the accounts it accepts
  shown,           \* what display_account returned for each account, or
                   \* "unasked"
  grouper,         \* the formatter constructed: its class ("none" before,
                   \* "transactions" or "entries", "threw" if the
                   \* constructor threw) and the format text it was given
  first_line_format,  \* the formatter's two formats, each as parse_elements
  next_lines_format,  \* left it
  last_entry,      \* the formatter's last_entry: "NULL" or an entry
  last_xact,       \* the formatter's last_xact: "NULL" or a transaction
  xact_date,       \* each transaction's date
  dflags,          \* each transaction's xdata dflags
  fed,             \* the calls made on the formatter so far: a transaction
                   \* for operator(), "flush" for flush()
  output_stream    \* what the formatter rendered: the transaction and the
                   \* format ("first" or "next") of each format() call

truncVars == <<elision_style, abbrev_length, configured, trunc_pc, trunc>>
compileVars == <<parser, compile_pc, compiled>>
renderVars == <<render_pc, rendered>>
accountVars == <<account_total, displayed, disp_pred, shown>>
grouperVars == <<grouper, first_line_format, next_lines_format, last_entry,
                 last_xact, xact_date, dflags, fed, output_stream>>

vars == <<truncVars, compileVars, renderVars, accountVars, grouperVars>>

\* The texts and widths truncate is called with.
NameTexts == TextsOver(NameChars, MaxLen)
Widths == 2..MaxLen

\* The static initialisers of format_t.
InitSettings ==
  /\ elision_style = "ABBREVIATE"
  /\ abbrev_length = 2
  /\ configured = FALSE

NoTruncate ==
  /\ trunc_pc = "idle"
  /\ trunc = [str |-> <<>>, width |-> 0, is_account |-> FALSE, result |-> <<>>]

\* std::auto_ptr<expr_t::parser_t> expr_t::parser starts empty.
InitParser == parser = "null"

NoCompile ==
  /\ compile_pc = "idle"
  /\ compiled = [fmt |-> <<>>, after |-> <<>>, thrown |-> "",
                 elements |-> <<>>, p |-> 0]

NoRender ==
  /\ render_pc = "idle"
  /\ rendered = [context |-> [entry |-> FALSE, xact |-> FALSE, account |-> FALSE],
                 status |-> "", out |-> <<>>]

\* The accounts of the journal: a parent and its two children.
Accounts == {"P", "A", "B"}
Children(account) == IF account = "P" THEN {"A", "B"} ELSE {}

\* No account was loaded with a total, marked or asked about.
NoAccounts ==
  /\ account_total = [a \in Accounts |-> 0]
  /\ displayed = {}
  /\ disp_pred = [present |-> FALSE, accepts |-> {}]
  /\ shown = [a \in Accounts |-> "unasked"]

\* The transactions of the journal: x1 and x2 of one entry, x3 of another.
Xacts == {"x1", "x2", "x3"}
XactEntry(xact) == IF xact = "x3" THEN "e2" ELSE "e1"

\* A format nobody reset yet.
NoFormat == [fmt |-> <<>>, after |-> <<>>, thrown |-> "", elements |-> <<>>, p |-> 0]

\* No formatter was constructed; no transaction has xdata flags.
NoGrouper ==
  /\ grouper = [kind |-> "none", format |-> <<>>]
  /\ first_line_format = NoFormat
  /\ next_lines_format = NoFormat
  /\ last_entry = "NULL"
  /\ last_xact = "NULL"
  /\ xact_date = [x \in Xacts |-> 1]
  /\ dflags = [x \in Xacts |-> {}]
  /\ fed = <<>>
  /\ output_stream = <<>>

\* The static initialisers of format_t; truncate was not called yet.
TruncInit ==
  /\ InitSettings
  /\ NoTruncate
  /\ InitParser
  /\ NoCompile
  /\ NoRender
  /\ NoAccounts
  /\ NoGrouper

\* An option handler assigns format_t::elision_style.
SetElisionStyle ==
  /\ trunc_pc = "idle"
  /\ \E style \in ElisionStyles : elision_style' = style
  /\ configured' = TRUE
  /\ UNCHANGED <<abbrev_length, trunc_pc, trunc, compileVars, renderVars, accountVars,
                 grouperVars>>

\* An option handler assigns format_t::abbrev_length.
SetAbbrevLength ==
  /\ trunc_pc = "idle"
  /\ \E n \in 0..MaxAbbrev : abbrev_length' = n
  /\ configured' = TRUE
  /\ UNCHANGED <<elision_style, trunc_pc, trunc, compileVars, renderVars, accountVars,
                 grouperVars>>

\* A caller asks for truncate(str, width, is_account) and gets its result.
CallTruncate ==
  /\ trunc_pc = "idle"
  /\ \E str \in NameTexts, width \in Widths, is_account \in BOOLEAN :
       \E r \in Truncate(str, width, is_account, elision_style, abbrev_length) :
         trunc' = [str |-> str, width |-> width, is_account |-> is_account,
                   result |-> r]
  /\ trunc_pc' = "returned"
  /\ UNCHANGED <<elision_style, abbrev_length, configured, compileVars, renderVars,
                 accountVars, grouperVars>>

TruncNext == SetElisionStyle \/ SetAbbrevLength \/ CallTruncate

\* The settings and one call of truncate.
SpecTruncate == TruncInit /\ [][TruncNext]_vars

\* ---------------------------------------------------------------- compile

\* The characters of the templates written character by character: the two
\* control characters, the delimiters, and a character that is neither a
\* field selector nor an escape.
FmtChars == {"%", "\\", "(", ")", "[", "]", "q"}

\* The parts of the templates that hold one directive with flags and widths.
FlagTexts == {<<>>, <<"-">>, <<"!">>, <<"!", "-">>}
MinTexts == {<<>>, <<"0">>, <<"8">>, <<"1", "0">>, <<"4", "0", "9", "6">>}
MaxTexts ==
  {<<>>, <<".">>, <<".", "0">>, <<".", "8">>, <<".", "1", "0">>,
   <<".", "4", "0", "9", "6">>}
SelectorTexts ==
  {<<>>, <<"A">>, <<"%">>, <<"q">>, <<"x">>, <<"x", "B">>, <<"x", "q">>,
   <<"d">>, <<"n">>, <<"(", "q", ")">>, <<"[", "q", "]">>}
LiteralTexts == {<<>>, <<"q">>, <<"\\", "n">>}

DirectiveFmt(pre, flags, min, max, sel, post) ==
  pre \o <<"%">> \o flags \o min \o max \o sel \o post

\* The templates handed to parse_elements.
Fmts ==
  TextsOver(FmtChars, MaxFmtLen)
    \cup {DirectiveFmt(pre, f, mn, mx, sel, post) :
            pre \in LiteralTexts, f \in FlagTexts, mn \in MinTexts,
            mx \in MaxTexts, sel \in SelectorTexts, post \in LiteralTexts}

\* What the memory behind the template's terminator may hold when the scan
\* reads it: nothing (a NUL), a plain character, or the start of a directive.
BytesAfter == {<<>>, <<"q">>, <<"%", "q">>, <<"%", "(">>}

\* format_t::parse_elements(fmt): what the build can yield.  The bytes
\* behind the terminator matter only to a scan that reads them.
ParseElements(fmt, parse) ==
  LET r == Scan(fmt \o <<NUL>>, 0, <<>>, <<>>, parse)
  IN  IF r.p <= Len(fmt)
        THEN {[fmt |-> fmt, after |-> <<>>, thrown |-> r.thrown,
               elements |-> r.elements, p |-> r.p]}
        ELSE {LET g == Scan(fmt \o <<NUL>> \o after \o <<NUL>>, 0, <<>>, <<>>, parse)
              IN  [fmt |-> fmt, after |-> after, thrown |-> g.thrown,
                   elements |-> g.elements, p |-> g.p] :
                after \in BytesAfter}

CompileInit ==
  /\ InitSettings
  /\ NoTruncate
  /\ InitParser
  /\ NoCompile
  /\ NoRender
  /\ NoAccounts
  /\ NoGrouper

\* expr_t::initialize()
Initialize ==
  /\ compile_pc = "idle"
  /\ parser' = "set"
  /\ UNCHANGED <<truncVars, compile_pc, compiled, renderVars, accountVars,
                 grouperVars>>

\* expr_t::shutdown()
Shutdown ==
  /\ compile_pc = "idle"
  /\ parser' = "null"
  /\ UNCHANGED <<truncVars, compile_pc, compiled, renderVars, accountVars,
                 grouperVars>>

\* A template is compiled: format_t::parse_elements(fmt).
Compile ==
  /\ compile_pc = "idle"
  /\ \E fmt \in Fmts : compiled' \in ParseElements(fmt, parser)
  /\ compile_pc' = "done"
  /\ UNCHANGED <<truncVars, parser, renderVars, accountVars,
                 grouperVars>>

CompileNext == Initialize \/ Shutdown \/ Compile

\* The expression parser's life and one compilation of a template.
SpecCompile == CompileInit /\ [][CompileNext]_vars

\* ----------------------------------------------------------------- render

\* out << text on a stream whose width was set to min_width (no padding when
\* it is 0) and whose alignment is left or right.
Pad(text, min_width, left) ==
  LET fill == [k \in 1..(min_width - Len(text)) |-> " "]
  IN  IF left THEN text \o fill ELSE fill \o text

\* string temp = out.str(); temp.erase(max_width) when max_width > 0 and the
\* text is longer.
EraseToMax(temp, max_width, ignore_max_width) ==
  IF ~ignore_max_width /\ max_width > 0 /\ max_width < Len(temp)
    THEN SubSeq(temp, 1, max_width)
    ELSE temp

\* One turn of the loop of format_t::format for the element elem: the switch
\* on its type has the case STRING only, any other type reaches
\* default: assert(false).  Yields whether the assertion stopped the process
\* and what is written to out_str.
FormatElement(elem, context, asserts) ==
  LET left == "ALIGN_LEFT" \in elem.flags
  IN  IF elem.type = "STRING"
        THEN [failed |-> FALSE,
              text |-> EraseToMax(Pad(elem.chars, elem.min_width, left),
                                  elem.max_width, FALSE)]
      ELSE IF asserts THEN [failed |-> TRUE, text |-> <<>>]
      ELSE [failed |-> FALSE, text |-> EraseToMax(<<>>, elem.max_width, FALSE)]

\* format_t::format(out_str, scope) from the k-th element on, out being what
\* was written so far.
RECURSIVE FormatFrom(_, _, _, _, _)
FormatFrom(elements, k, context, asserts, out) ==
  IF k > Len(elements) THEN [status |-> "completed", out |-> out]
  ELSE LET r == FormatElement(elements[k], context, asserts)
       IN  IF r.failed
             THEN [status |-> "assertion failed", out |-> out]
             ELSE FormatFrom(elements, k + 1, context, asserts, out \o r.text)

\* The field selectors of the templates that are rendered.
FieldSelectors ==
  {"d", "D", "S", "B", "b", "E", "e", "X", "Y", "C", "P", "W", "a", "A", "t",
   "o", "T", "N", "n", "|", "_"}

RenderSelectorTexts ==
  {<<c>> : c \in FieldSelectors}
    \cup {<<"x", c>> : c \in {"B", "b", "E", "e"}}
    \cup {<<"%">>, <<"(", "q", ")">>, <<"[", "q", "]">>}

\* The templates rendered: literal text, or one directive with or without
\* widths, with or without literal text around it.
RenderFmts ==
  {<<"q", "q">>, <<"\\", "n">>}
    \cup {pre \o <<"%">> \o w \o sel \o post :
            pre \in {<<>>, <<"q", "q">>},
            w \in {<<>>, <<"3">>, <<"-", "3">>, <<"3", ".", "1">>, <<".", "1">>},
            sel \in RenderSelectorTexts,
            post \in {<<>>, <<"q">>}}

\* The contexts: each of the entry, the transaction and the account is there
\* or not.
Contexts == [entry : BOOLEAN, xact : BOOLEAN, account : BOOLEAN]

\* The expression parser is installed, as reports run with it.
RenderInit ==
  /\ InitSettings
  /\ NoTruncate
  /\ parser = "set"
  /\ NoCompile
  /\ NoRender
  /\ NoAccounts
  /\ NoGrouper

\* format_t::reset(fmt) of a report's format: parse_elements(fmt).
ResetFormat ==
  /\ compile_pc = "idle"
  /\ \E fmt \in RenderFmts : compiled' \in ParseElements(fmt, parser)
  /\ compile_pc' = "done"
  /\ UNCHANGED <<truncVars, parser, renderVars, accountVars,
                 grouperVars>>

\* format_t::format(out_str, scope) with the compiled chain.  The build
\* decides whether assert() stops the process or is compiled away.
Format ==
  /\ compile_pc = "done"
  /\ compiled.thrown = ""
  /\ render_pc = "idle"
  /\ \E context \in Contexts, asserts \in BOOLEAN :
       LET r == FormatFrom(compiled.elements, 1, context, asserts, <<>>)
       IN  rendered' = [context |-> context, status |-> r.status, out |-> r.out]
  /\ render_pc' = "done"
  /\ UNCHANGED <<truncVars, compileVars, accountVars, grouperVars>>

RenderNext == ResetFormat \/ Format

\* A report's format is compiled and rendered once.
SpecRender == RenderInit /\ [][RenderNext]_vars

\* --------------------------------------------------------------- accounts

\* Largest total an account holds.
MaxTotal == 2

\* disp_subaccounts_p(account, disp_pred, to_show): the loop over the
\* children and the locals it needs are outside the build; what is left
\* sets to_show = NULL and returns display = false.
DispSubaccountsP(account, pred) == [display |-> FALSE, to_show |-> "NULL"]

\* (*disp_pred)(account)
PredAccepts(pred, account) == account \in pred.accepts

\* display_account(account, disp_pred)
DisplayAccount(account, pred, marked) ==
  IF account \in marked THEN FALSE
  ELSE LET sub == DispSubaccountsP(account, pred)
       IN  IF sub.display THEN TRUE
           ELSE sub.to_show = "NULL"
                  /\ (~pred.present \/ PredAccepts(pred, account))

\* The journal's accounts hold totals, some are marked displayed, and the
\* report has a display predicate or none.
AccountsInit ==
  /\ InitSettings
  /\ NoTruncate
  /\ InitParser
  /\ NoCompile
  /\ NoRender
  /\ account_total \in [Accounts -> 0..MaxTotal]
  /\ displayed \in SUBSET Accounts
  /\ disp_pred \in {[present |-> FALSE, accepts |-> {}]}
                     \cup {[present |-> TRUE, accepts |-> s] : s \in SUBSET Accounts}
  /\ shown = [a \in Accounts |-> "unasked"]
  /\ NoGrouper

\* A caller asks display_account(account, disp_pred).
CallDisplayAccount ==
  /\ \E account \in Accounts :
       shown' = [shown EXCEPT ![account] =
                   IF DisplayAccount(account, disp_pred, displayed)
                     THEN "true" ELSE "false"]
  /\ UNCHANGED <<truncVars, compileVars, renderVars, grouperVars,
                 account_total, displayed, disp_pred>>

\* format_accounts::operator()(account): its body is outside the build, so
\* nothing is rendered and no account is marked.
FormatAccounts ==
  /\ \E account \in Accounts : UNCHANGED accountVars
  /\ UNCHANGED <<truncVars, compileVars, renderVars, grouperVars>>

AccountsNext == CallDisplayAccount \/ FormatAccounts

\* The display selector over a parent and its two children.
SpecAccounts == AccountsInit /\ [][AccountsNext]_vars

\* ------------------------------------------------------------- formatters

\* Longest format text a formatter is constructed from.
MaxSplitLen == 4
\* Most calls made on one formatter.
MaxCalls == 3
\* Latest date of a transaction.
MaxDate == 2

\* std::strstr(f, marker): the last 0-based position where marker occurs.
StrStrLast(text, marker) ==
  LET hits == {i \in 0..(Len(text) - Len(marker)) :
                 SubSeq(text, i + 1, i + Len(marker)) = marker}
  IN  IF hits = {} THEN NPOS
      ELSE CHOOSE i \in hits : \A j \in hits : j <= i

\* std::strstr(f, marker): the first 0-based position where marker occurs,
\* NPOS for the null pointer.
StrStr(text, marker) ==
  LET hits == {i \in 0..(Len(text) - Len(marker)) :
                 SubSeq(text, i + 1, i + Len(marker)) = marker}
  IN  IF hits = {} THEN NPOS
      ELSE CHOOSE i \in hits : \A j \in hits : i <= j

\* The texts the constructor of format_transactions resets its two formats
\* with: string(f, 0, p - f) and string(p + 2) around "%/", or the format
\* itself twice.
SplitFormat(format) ==
  LET p == StrStr(format, <<"%", "/">>)
  IN  IF p # NPOS
        THEN [first |-> Substr(format, 0, p), next |-> Substr(format, p + 2, NPOS)]
        ELSE [first |-> format, next |-> format]

\* format_transactions::format_transactions(_output_stream, format) for a
\* formatter of the class kind (format_entries inherits the constructor's
\* work and the members): last_entry and last_xact are NULL, the two formats
\* are reset in turn, and an exception of the first leaves the second alone.
ConstructFrom(formats, kinds) ==
  /\ grouper.kind = "none"
  /\ \E format \in formats, kind \in kinds :
       LET sp == SplitFormat(format)
       IN  \E f \in ParseElements(sp.first, parser) :
             /\ first_line_format' = f
             /\ IF f.thrown # ""
                  THEN /\ next_lines_format' = NoFormat
                       /\ grouper' = [kind |-> "threw", format |-> format]
                  ELSE \E n \in ParseElements(sp.next, parser) :
                         /\ next_lines_format' = n
                         /\ grouper' = [kind |-> IF n.thrown # "" THEN "threw" ELSE kind,
                                        format |-> format]
  /\ last_entry' = "NULL"
  /\ last_xact' = "NULL"
  /\ UNCHANGED <<truncVars, compileVars, renderVars, accountVars, xact_date,
                 dflags, fed, output_stream>>

GrouperKinds == {"transactions", "entries"}

\* The format texts split.
SplitFmts ==
  TextsOver({"%", "/", "q"}, MaxSplitLen)
    \cup {<<"%", "(", "%", "/", "q">>, <<"q", "%", "/", "%", "[">>}

\* The expression parser is installed; no formatter exists.
ConstructInit ==
  /\ InitSettings
  /\ NoTruncate
  /\ parser = "set"
  /\ NoCompile
  /\ NoRender
  /\ NoAccounts
  /\ NoGrouper

Construct == ConstructFrom(SplitFmts, GrouperKinds)

\* A formatter is constructed from a format text.
SpecConstruct == ConstructInit /\ [][Construct]_vars

\* format_entries::format_last_entry(): its body is outside the build, so
\* the stream and the flags are left as they are.
FormatLastEntry(entry, out, flags) == [output_stream |-> out, dflags |-> flags]

\* The formats the formatters fed with transactions are constructed from.
GroupFmts == {<<"q">>, <<"q", "%", "/", "q", "q">>, <<"%", "P", "%", "/", "%", "a">>}

\* The journal's transactions have their dates.
GroupersInit ==
  /\ InitSettings
  /\ NoTruncate
  /\ parser = "set"
  /\ NoCompile
  /\ NoRender
  /\ NoAccounts
  /\ grouper = [kind |-> "none", format |-> <<>>]
  /\ first_line_format = NoFormat
  /\ next_lines_format = NoFormat
  /\ last_entry = "NULL"
  /\ last_xact = "NULL"
  /\ xact_date \in [Xacts -> 1..MaxDate]
  /\ dflags = [x \in Xacts |-> {}]
  /\ fed = <<>>
  /\ output_stream = <<>>

ConstructGrouper == ConstructFrom(GroupFmts, GrouperKinds)

\* format_transactions::operator()(xact): its body is outside the build, so
\* nothing is rendered, no flag is set and the last-seen members stay.
FormatTransactionsCall ==
  /\ grouper.kind = "transactions"
  /\ Len(fed) < MaxCalls
  /\ \E xact \in Xacts : fed' = Append(fed, xact)
  /\ UNCHANGED <<truncVars, compileVars, renderVars, accountVars, grouper,
                 first_line_format, next_lines_format, last_entry, last_xact,
                 xact_date, dflags, output_stream>>

\* format_entries::operator()(xact)
FormatEntriesCall ==
  /\ grouper.kind = "entries"
  /\ Len(fed) < MaxCalls
  /\ \E xact \in Xacts :
       LET marked == [dflags EXCEPT ![xact] = @ \cup {"TRANSACTION_TO_DISPLAY"}]
           r == IF last_entry # "NULL" /\ XactEntry(xact) # last_entry
                  THEN FormatLastEntry(last_entry, output_stream, marked)
                  ELSE [output_stream |-> output_stream, dflags |-> marked]
       IN  /\ dflags' = r.dflags
           /\ output_stream' = r.output_stream
           /\ last_entry' = XactEntry(xact)
           /\ fed' = Append(fed, xact)
  /\ UNCHANGED <<truncVars, compileVars, renderVars, accountVars, grouper,
                 first_line_format, next_lines_format, last_xact, xact_date>>

\* format_entries::flush(), the end of the traversal: the buffered group of
\* the last-seen entry is rendered by format_last_entry().
Flush ==
  /\ grouper.kind = "entries"
  /\ Len(fed) < MaxCalls
  /\ LET r == IF last_entry # "NULL"
                THEN FormatLastEntry(last_entry, output_stream, dflags)
                ELSE [output_stream |-> output_stream, dflags |-> dflags]
     IN  /\ dflags' = r.dflags
         /\ output_stream' = r.output_stream
  /\ fed' = Append(fed, "flush")
  /\ UNCHANGED <<truncVars, compileVars, renderVars, accountVars, grouper,
                 first_line_format, next_lines_format, last_entry, last_xact,
                 xact_date>>

GroupersNext ==
  ConstructGrouper \/ FormatTransactionsCall \/ FormatEntriesCall \/ Flush

\* A formatter is constructed and fed with transactions.
SpecGroupers == GroupersInit /\ [][GroupersNext]_vars

\* ------------------------------------------------------- claims: truncate

\* truncate returned to a caller whose text was longer than the width.
Elided == trunc_pc = "returned" /\ Len(trunc.str) > trunc.width

\* What TRUNCATE_TRAILING is said to return: the first width - 2 characters
\* followed by "..".
TrailingElision(str, width) == SubSeq(str, 1, width - 2) \o <<".", ".">>

\* The call took the ABBREVIATE case with an account name.
AbbreviatedPath == elision_style = "ABBREVIATE" /\ trunc.is_account

\* C1 as stated: whatever the policy and is_path, the text truncate returns
\* is exactly min(len(s), w) long, and it is s itself when len(s) <= w.
C1_ExactLength ==
  trunc_pc = "returned" =>
    /\ Len(trunc.result) = Min(Len(trunc.str), trunc.width)
    /\ (Len(trunc.str) <= trunc.width => trunc.result = trunc.str)

\* C1 amended: the text truncate returns is never longer than min(len(s), w);
\* it is exactly that long under TRUNCATE_TRAILING, TRUNCATE_MIDDLE and
\* TRUNCATE_LEADING and under ABBREVIATE when is_path is false (an abbreviated
\* path that fits is returned as it is, shorter than w); it is s itself when
\* len(s) <= w.
C1_LengthBound ==
  trunc_pc = "returned" =>
    /\ Len(trunc.result) <= Min(Len(trunc.str), trunc.width)
    /\ (~AbbreviatedPath =>
          Len(trunc.result) = Min(Len(trunc.str), trunc.width))
    /\ (Len(trunc.str) <= trunc.width => trunc.result = trunc.str)

\* C1's case: a text longer than the width came back cut to the width under
\* TRUNCATE_MIDDLE.
C1_Witness ==
  /\ Elided
  /\ elision_style = "TRUNCATE_MIDDLE"
  /\ Len(trunc.str) = MaxLen
  /\ trunc.width = 3
  /\ Len(trunc.result) = 3

\* The abbreviation C2 describes: walking the parts left to right, a part
\* other than the last is cut to its first abbrev characters exactly when the
\* running length exceeds the width, and the running length loses the number
\* of characters removed.
RECURSIVE ClaimedWalk(_, _, _, _, _, _)
ClaimedWalk(parts, i, text, running, width, abbrev) ==
  IF i = Len(parts) THEN text \o parts[i]
  ELSE IF running > width
    THEN LET kept == SubSeq(parts[i], 1, Min(Len(parts[i]), abbrev))
         IN  ClaimedWalk(parts, i + 1, text \o kept \o <<":">>,
                         running - (Len(parts[i]) - Len(kept)), width, abbrev)
  ELSE ClaimedWalk(parts, i + 1, text \o parts[i] \o <<":">>,
                   running, width, abbrev)

\* The parts of a text between its ':' characters.
RECURSIVE ColonParts(_)
ColonParts(str) ==
  IF \A i \in 1..Len(str) : str[i] # ":" THEN <<str>>
  ELSE LET c == CHOOSE i \in 1..Len(str) :
                  str[i] = ":" /\ \A j \in 1..(i - 1) : str[j] # ":"
       IN  <<SubSeq(str, 1, c - 1)>> \o ColonParts(SubSeq(str, c + 1, Len(str)))

\* ... and if the abbreviated text still exceeds the width, its last width
\* characters with the first two overwritten by "..", else the text itself.
ClaimedAbbreviation(str, width, abbrev) ==
  LET text == ClaimedWalk(ColonParts(str), 1, <<>>, Len(str), width, abbrev)
  IN  IF Len(text) > width
        THEN <<".", ".">> \o SubSeq(text, Len(text) - width + 3, Len(text))
        ELSE text

\* C2: under ABBREVIATE with is_path true and len(text) > width, truncate
\* returns the abbreviation the claim describes.
C2_AbbreviateAsClaimed ==
  (Elided /\ AbbreviatedPath) =>
    trunc.result = ClaimedAbbreviation(trunc.str, trunc.width, abbrev_length)

\* C3: for len(text) > width >= 2, under TRUNCATE_TRAILING (any is_path) and
\* under ABBREVIATE with is_path false, truncate returns the first width - 2
\* characters of the text followed by "..".
C3_TrailingElision ==
  (/\ Elided
   /\ \/ elision_style = "TRUNCATE_TRAILING"
      \/ elision_style = "ABBREVIATE" /\ ~trunc.is_account) =>
    trunc.result = TrailingElision(trunc.str, trunc.width)

\* C3's case: ABBREVIATE fell through for a text that is no path.
C3_Witness ==
  /\ Elided
  /\ elision_style = "ABBREVIATE"
  /\ ~trunc.is_account
  /\ trunc.str = <<"a", "b", ":", "b", "a", "b">>
  /\ trunc.width = 4
  /\ trunc.result = <<"a", "b", ".", ".">>

\* C4: before any setting is changed the abbreviation length is 2 and the
\* policy is TRUNCATE_TRAILING: truncate of an over-width text, an account
\* path included, keeps the first width - 2 characters and appends "..".
C4_DefaultIsTrailing ==
  ~configured =>
    /\ abbrev_length = 2
    /\ (Elided => trunc.result = TrailingElision(trunc.str, trunc.width))

\* -------------------------------------------------------- claims: compile

Compiled == compile_pc = "done"
Returned == Compiled /\ compiled.thrown = ""

MissingClose(close) ==
  IF close = ")" THEN "format_error: Missing ')'" ELSE "format_error: Missing ']'"
ParserError == "parse_error: Value expression parser not initialized"

\* The scan read bytes behind the template's terminator.
RanPastEnd == compiled.p > Len(compiled.fmt)

\* How often ch occurs in text[lo..hi].
Count(text, ch, lo, hi) == Cardinality({k \in lo..hi : text[k] = ch})

Least(S) == CHOOSE x \in S : \A y \in S : x <= y

\* The positions of closing delimiters behind the opening one at position i
\* with as many opening as closing delimiters in between; the least of them
\* is the matching one.
Closers(text, i, open, close) ==
  {j \in (i + 1)..Len(text) :
     /\ text[j] = close
     /\ Count(text, open, i + 1, j - 1) = Count(text, close, i + 1, j - 1)}

HasControl(text) == \E k \in 1..Len(text) : text[k] \in {"%", "\\"}

\* text[i+1..m-1] is a run of flags, then digits, then optionally '.' and
\* digits.
WidthRun(text, i, m) ==
  \E a \in i..(m - 1), b \in i..(m - 1) :
    /\ a <= b
    /\ \A k \in (i + 1)..a : text[k] \in {"-", "!"}
    /\ \A k \in (a + 1)..b : text[k] \in Digits
    /\ \/ b = m - 1
       \/ /\ text[b + 1] = "."
          /\ \A k \in (b + 2)..(m - 1) : text[k] \in Digits

\* The template's first control character is the '%' at position i, and the
\* directive it starts has the delimiter open, at position m, as selector.
FirstDirective(text, i, m, open) ==
  /\ text[i] = "%"
  /\ text[m] = open
  /\ ~HasControl(SubSeq(text, 1, i - 1))
  /\ WidthRun(text, i, m)

\* The number a text of digits writes.
RECURSIVE Decimal(_)
Decimal(digits) ==
  IF digits = <<>> THEN 0
  ELSE DigitValue(digits[1]) * 10 ^ (Len(digits) - 1) + Decimal(Tail(digits))

\* C5: in every template compile returns, a directive written with a
\* max-width and no min-width has min-width = max-width:
\* "%<flags>.<digits><selector>", behind literal text or not, yields both
\* widths equal to the digits' number, and "%-10.8A" keeps min-width 10,
\* max-width 8 and the left-align flag.
C5_MinDefaultsToMax ==
  Returned =>
    /\ \A pre \in LiteralTexts, f \in FlagTexts,
          d \in {<<"8">>, <<"1", "0">>, <<"4", "0", "9", "6">>},
          c \in {"A", "q", "n", "%", "d"} :
         compiled.fmt = pre \o <<"%">> \o f \o <<".">> \o d \o <<c>> =>
           LET k == IF pre = <<>> THEN 1 ELSE 2
           IN  /\ Len(compiled.elements) = k
               /\ compiled.elements[k].max_width = Decimal(d)
               /\ compiled.elements[k].min_width = Decimal(d)
    /\ compiled.fmt = <<"%", "-", "1", "0", ".", "8", "A">> =>
         /\ Len(compiled.elements) = 1
         /\ compiled.elements[1].min_width = 10
         /\ compiled.elements[1].max_width = 8
         /\ "ALIGN_LEFT" \in compiled.elements[1].flags

\* C5's case: "%.10A" was compiled.
C5_Witness ==
  /\ Returned
  /\ compiled.fmt = <<"%", ".", "1", "0", "A">>
  /\ compiled.elements[1].type = "ACCOUNT_FULLNAME"
  /\ compiled.elements[1].min_width = 10
  /\ compiled.elements[1].max_width = 10

\* What C6 says of the first directive of a template when it is "%(" or
\* "%[": with no matching delimiter compile throws the missing-delimiter
\* error and returns nothing; with one, provided (needParser) the parser is
\* installed or the directive is "%[", and no control character follows the
\* matching delimiter, compile returns a chain whose directive holds the raw
\* text between the delimiters.  With needParser false the proviso on the
\* parser is dropped.
DelimiterClaim(needParser) ==
  Compiled =>
    \A i \in 1..Len(compiled.fmt), m \in 1..Len(compiled.fmt),
       d \in {<<"(", ")", "VALUE_EXPR">>, <<"[", "]", "DATE_STRING">>} :
      (i < m /\ FirstDirective(compiled.fmt, i, m, d[1])) =>
        LET closers == Closers(compiled.fmt, m, d[1], d[2])
            k == IF i = 1 THEN 1 ELSE 2
        IN  IF closers = {}
              THEN /\ compiled.thrown = MissingClose(d[2])
                   /\ compiled.elements = <<>>
              ELSE LET j == Least(closers)
                       raw == SubSeq(compiled.fmt, m + 1, j - 1)
                   IN  /\ (/\ needParser => (d[1] = "[" \/ parser = "set")
                           /\ ~HasControl(SubSeq(compiled.fmt, j + 1,
                                                 Len(compiled.fmt))))
                            => Returned
                       /\ Returned =>
                            /\ compiled.elements[k].type = d[3]
                            /\ IF d[1] = "("
                                 THEN compiled.elements[k].val_expr = raw
                                 ELSE compiled.elements[k].chars = raw

Unmatched(text, open, close) ==
  \E i \in 1..Len(text) :
    text[i] = open /\ Closers(text, i, open, close) = {}

WideFmts ==
  {DirectiveFmt(pre, f, mn, mx, <<c>>, <<>>) :
     pre \in {<<>>, <<"q">>}, f \in FlagTexts, mn \in MinTexts,
     mx \in MaxTexts, c \in {"A", "n"}}
    \ {DirectiveFmt(pre, f, mn, mx, <<c>>, <<>>) :
         pre \in {<<>>, <<"q">>}, f \in FlagTexts,
         mn \in MinTexts \ {<<"4", "0", "9", "6">>},
         mx \in MaxTexts \ {<<".", "4", "0", "9", "6">>}, c \in {"A", "n"}}

\* C8 as stated: compile throws when a directive's min-width or max-width
\* exceeds 4095, so no chain it returns (from a scan that stayed inside the
\* template) holds such a width.
C8_WideThrows ==
  (Returned /\ ~RanPastEnd) =>
    \A k \in 1..Len(compiled.elements) :
      /\ compiled.elements[k].min_width <= WidthLimit
      /\ compiled.elements[k].max_width <= WidthLimit

\* C8 amended: compile does not check widths: a template whose directive is
\* written with a width above 4095 compiles, the digits read as the width
\* and the character behind them as the field selector.
C8_WideCompiles ==
  (Compiled /\ compiled.fmt \in WideFmts) =>
    /\ Returned
    /\ compiled.elements[Len(compiled.elements)].type
         \in {"ACCOUNT_FULLNAME", "OPT_NOTE"}
    /\ \/ compiled.elements[Len(compiled.elements)].min_width > WidthLimit
       \/ compiled.elements[Len(compiled.elements)].max_width > WidthLimit

\* C8's case: "%4096A" was compiled.
C8_Witness ==
  /\ Returned
  /\ compiled.fmt = <<"%", "4", "0", "9", "6", "A">>
  /\ compiled.elements[1].type = "ACCOUNT_FULLNAME"

\* ----------------------------------------------- claims: render, accounts

\* C9: rendering completes for every directive kind and every context (no
\* failure, no fatal assertion), and a field whose context piece is absent
\* writes its default: nothing for the payee, a single space for an account
\* name.
C9_RenderTotal ==
  render_pc = "done" =>
    /\ rendered.status = "completed"
    /\ (compiled.fmt = <<"%", "P">> /\ ~rendered.context.entry) =>
         rendered.out = <<>>
    /\ (compiled.fmt = <<"%", "a">> /\ ~rendered.context.account) =>
         rendered.out = <<" ">>

\* C10: a parent that is not displayed and has two children with totals
\* distinct from each other is approved by display_account whatever the
\* predicate, and then so is each of its children (not displayed either).
C10_ParentAndChildrenShown ==
  (account_total["A"] # account_total["B"] /\ "P" \notin displayed) =>
    /\ shown["P"] # "false"
    /\ \A c \in Children("P") :
         (shown["P"] = "true" /\ c \notin displayed) => shown[c] # "false"

\* The children of the account that the display predicate lets through.
PassingChildren(account) ==
  {c \in Children(account) : ~disp_pred.present \/ PredAccepts(disp_pred, c)}

\* C11: a parent that is not displayed and has exactly one child passing the
\* predicate, of a total equal to the parent's, is not approved by
\* display_account (the child is shown in its place), whether the predicate
\* accepts the parent or not; the parent and that child are never both
\* approved.
C11_SingleChildNominated ==
  \A c \in Children("P") :
    ("P" \notin displayed /\ PassingChildren("P") = {c}
       /\ account_total[c] = account_total["P"]) =>
      /\ shown["P"] # "true"
      /\ ~(shown["P"] = "true" /\ shown[c] = "true")

\* ---------------------------------------------------- claims: formatters

\* The transactions among the first k calls.
FedXacts(k) == {fed[j] : j \in {i \in 1..k : fed[i] \in Xacts}}

\* How often the transaction was rendered.
Renderings(xact) ==
  Cardinality({k \in DOMAIN output_stream : output_stream[k].xact = xact})

\* C12: the transaction formatter renders every transaction fed to it
\* exactly once, with the first-line format if its entry or its date differs
\* from the one rendered before it and with the next-lines format otherwise;
\* after a call the transaction has TRANSACTION_DISPLAYED and is the
\* formatter's last_xact, its entry the formatter's last_entry.
C12_TransactionsRendered ==
  (grouper.kind = "transactions" /\ fed # <<>>) =>
    LET xact == fed[Len(fed)]
    IN  /\ "TRANSACTION_DISPLAYED" \in dflags[xact]
        /\ last_xact = xact
        /\ last_entry = XactEntry(xact)
        /\ \A x \in FedXacts(Len(fed)) : Renderings(x) = 1
        /\ \A k \in DOMAIN output_stream :
             output_stream[k].line =
               IF \/ k = 1
                  \/ XactEntry(output_stream[k].xact) # XactEntry(output_stream[k - 1].xact)
                  \/ xact_date[output_stream[k].xact] # xact_date[output_stream[k - 1].xact]
                 THEN "first" ELSE "next"

\* The call k makes the entry formatter render the group buffered before it:
\* a flush, or a transaction of another entry than the one last seen.
LastXactBefore(k) ==
  fed[CHOOSE j \in 1..(k - 1) :
        fed[j] \in Xacts /\ \A i \in (j + 1)..(k - 1) : fed[i] \notin Xacts]
RendersGroup(k) ==
  /\ FedXacts(k - 1) # {}
  /\ \/ fed[k] = "flush"
     \/ XactEntry(fed[k]) # XactEntry(LastXactBefore(k))

\* C13: the entry formatter marks every transaction fed to it
\* TRANSACTION_TO_DISPLAY; a transaction of another entry than the last-seen
\* one, or a flush, renders the last-seen entry's transactions that are
\* marked (the first with the first-line format, the others with the
\* next-lines format) and marks them TRANSACTION_DISPLAYED; nothing is
\* rendered before that.
C13_EntriesRendered ==
  grouper.kind = "entries" =>
    /\ \A x \in FedXacts(Len(fed)) : "TRANSACTION_TO_DISPLAY" \in dflags[x]
    /\ \A k \in 2..Len(fed) :
         RendersGroup(k) =>
           \A x \in FedXacts(k - 1) :
             XactEntry(x) = XactEntry(LastXactBefore(k)) =>
               /\ "TRANSACTION_DISPLAYED" \in dflags[x]
               /\ Renderings(x) >= 1
    /\ \A k \in DOMAIN output_stream :
         output_stream[k].line =
           IF k = 1 \/ XactEntry(output_stream[k].xact) # XactEntry(output_stream[k - 1].xact)
             THEN "first" ELSE "next"
    /\ (\A k \in 2..Len(fed) : ~RendersGroup(k)) => output_stream = <<>>

\* "%/" occurs in the text.
HasMarker(text) ==
  \E i \in 1..(Len(text) - 1) : text[i] = "%" /\ text[i + 1] = "/"

\* C15: a formatter constructed from a format text has its first-line format
\* compiled from the text before the first "%/" and its next-lines format
\* from the text behind it, the marker in neither; without a marker both are
\* compiled from the whole text; last_entry and last_xact are NULL.
C15_SplitAtFirstMarker ==
  grouper.kind \in GrouperKinds =>
    LET a == first_line_format.fmt
        b == next_lines_format.fmt
    IN  /\ IF HasMarker(grouper.format)
             THEN /\ grouper.format = a \o <<"%", "/">> \o b
                  /\ ~HasMarker(a \o <<"%">>)
             ELSE a = grouper.format /\ b = grouper.format
        /\ first_line_format \in ParseElements(a, parser)
        /\ next_lines_format \in ParseElements(b, parser)
        /\ last_entry = "NULL"
        /\ last_xact = "NULL"

\* A formatter was constructed from a text with two markers: the second one
\* is part of the next-lines format.
C15_Witness ==
  /\ grouper.kind = "transactions"
  /\ HasMarker(grouper.format)
  /\ HasMarker(next_lines_format.fmt)

\* ------------------------------------------------ claims: render, scanner

\* The length the text of a directive has once it is padded to min-width
\* and, for a max-width that is set and less, cut to max-width.
ClaimedLength(elem, textlen) ==
  LET padded == IF elem.min_width > textlen THEN elem.min_width ELSE textlen
  IN  IF elem.max_width > 0 /\ padded > elem.max_width
        THEN elem.max_width ELSE padded

\* The least length of what the elements from the k-th on append: a literal
\* has its characters, a field at least none.
RECURSIVE ClaimedLeast(_, _)
ClaimedLeast(elements, k) ==
  IF k > Len(elements) THEN 0
  ELSE ClaimedLength(elements[k],
                     IF elements[k].type = "STRING" THEN Len(elements[k].chars) ELSE 0)
         + ClaimedLeast(elements, k + 1)

\* C14: format appends one text per directive, in order and with nothing in
\* between: the directive's text padded to at least min-width (on the right
\* under the left-align flag, on the left otherwise) and, for max-width > 0
\* and a longer padded text, shortened to exactly max-width characters; for
\* max-width 0 never shortened.
C14_PaddedAndCut ==
  render_pc = "done" =>
    /\ rendered.status = "completed"
    /\ Len(rendered.out) >= ClaimedLeast(compiled.elements, 1)
    /\ (\A k \in DOMAIN compiled.elements : compiled.elements[k].type = "STRING") =>
         Len(rendered.out) = ClaimedLeast(compiled.elements, 1)

\* Capacity of the scanner's buffer of literal text.
BufCapacity == 1024

\* C16: the scan of a template never moves beyond the terminator of the
\* text, also when the text ends behind "%", behind "%" with flags or width
\* digits, or behind "\", and the literal text buffered never exceeds the
\* buffer.
C16_ScanStaysInside ==
  Compiled =>
    /\ compiled.p <= Len(compiled.fmt)
    /\ \A k \in DOMAIN compiled.elements :
         Len(compiled.elements[k].chars) <= BufCapacity

====
